---- MODULE Spec2Model ----
(***************************************************************************)
(* Model of backtester/backtester.py: class Backtest, the portfolio        *)
(* simulation engine (entry/exit execution, rebalance, balance tracking,   *)
(* the run() driver).                                                      *)
(*                                                                         *)
(* A Backtest object is a record `bt`.  Python attributes that __init__    *)
(* assigns are always present.  The other attributes the methods read      *)
(* (current_options_cash, options_inventory, total_capital, _stock_data,   *)
(* ...) exist only once somebody assigned them: bt.has is the set of the   *)
(* names that are bound, and reading a name outside it raises              *)
(* AttributeError, as in Python.  A raised exception ends the method where *)
(* it is raised and is kept in bt.err; what the method had already written *)
(* stays written.                                                          *)
(*                                                                         *)
(* Money is an integer number of ticks.  Every amount that enters from     *)
(* outside (prices, costs, cash assigned by the caller) is a multiple of   *)
(* Unit, so that the halving weights of the rebalance stay exact.          *)
(***************************************************************************)
EXTENDS Integers, Sequences, FiniteSets, TLC

VARIABLES bt, pre, call, ncalls, pc, day

vars == <<bt, pre, call, ncalls, pc, day>>

\* ------------------------------------------------------------------ bounds
MaxCalls == 2
MaxRows == 2
NumDates == 2

Unit == 2 ^ (MaxCalls + 1)

\* ------------------------------------------------------- generic helpers
RECURSIVE SumSeq(_)
SumSeq(s) == IF s = <<>> THEN 0 ELSE Head(s) + SumSeq(Tail(s))

RECURSIVE DropAt(_, _, _)
\* rows of `rows` whose position (offset by `base`) is not in `mask`
DropAt(rows, mask, base) ==
    IF rows = <<>> THEN <<>>
    ELSE (IF (base + 1) \in mask THEN <<>> ELSE <<Head(rows)>>)
         \o DropAt(Tail(rows), mask, base + 1)

\* F applied to the value of v (v is evaluated once)
Then(v, F(_)) == CHOOSE r \in { F(x) : x \in {v} } : TRUE

HasAttr(s, name) == name \in s.has
Raise(s, e) == [s EXCEPT !.err = e]
Ok(s) == s.err = "none"
\* attribute assignment: binds the name
SetAttr(s, name, v) == [s EXCEPT ![name] = v, !.has = @ \cup {name}]

\* --------------------------------------------------- strategy and market
\* The legs of the attached strategy (Strategy.legs), by name.
Legs == <<"leg_1", "leg_2">>
LegIdx == 1..Len(Legs)

\* Option contracts of the feed and their type column.
Contracts == {"C1", "P1"}
ContractType(c) == IF c = "C1" THEN "call" ELSE "put"

NaN == "NaN"

\* ------------------------------------------------------- execution engine
\* Backtest._process_entry_signals: the first candidate and its price, or
\* the empty frame and 0.
_process_entry_signals(entry_signals) ==
    IF entry_signals # <<>>
    THEN [entry |-> <<Head(entry_signals)>>,
          total_price |-> Head(entry_signals).cost * Head(entry_signals).qty]
    ELSE [entry |-> entry_signals, total_price |-> 0]

\* Mutant of the admission test: compares with > instead of >=.
AffordStrict(stop_if_broke, cash, total_price) ==
    (~stop_if_broke) \/ (cash > total_price)

\* The admission test of _execute_entry (line 204).
Afford(stop_if_broke, cash, total_price) ==
    (~stop_if_broke) \/ (cash >= total_price)

RECURSIVE ExecuteEntryMultiFill(_, _)
\* Mutant of the entry: a multi-fill policy, every candidate of the list is
\* offered in rank order and filled when it passes the admission test.
ExecuteEntryMultiFill(s, entry_signals) ==
    IF entry_signals = <<>> THEN s
    ELSE LET p == _process_entry_signals(entry_signals)
             s1 == IF Afford(s.stop_if_broke, s.current_options_cash, p.total_price)
                   THEN [s EXCEPT !.options_inventory = @ \o p.entry,
                                  !.trade_log = @ \o p.entry,
                                  !.current_options_cash = @ - p.total_price]
                   ELSE s
         IN  ExecuteEntryMultiFill(s1, Tail(entry_signals))

\* Backtest._execute_entry
_execute_entry(s, entry_signals) ==
    LET p == _process_entry_signals(entry_signals) IN
    IF s.stop_if_broke /\ ~HasAttr(s, "current_options_cash")
    THEN Raise(s, "AttributeError")
    ELSE IF Afford(s.stop_if_broke, s.current_options_cash, p.total_price)
    THEN IF ~HasAttr(s, "options_inventory") THEN Raise(s, "AttributeError")
         ELSE LET s1 == [s EXCEPT !.options_inventory = @ \o p.entry] IN
              IF ~HasAttr(s1, "trade_log") THEN Raise(s1, "AttributeError")
              ELSE LET s2 == [s1 EXCEPT !.trade_log = @ \o p.entry] IN
                   IF ~HasAttr(s2, "current_options_cash")
                   THEN Raise(s2, "AttributeError")
                   ELSE [s2 EXCEPT !.current_options_cash = @ - p.total_price]
    ELSE s

\* Mutant of the exit: refuses to close when option cash is negative.
ExitGuarded(s, exit_signals) ==
    IF HasAttr(s, "current_options_cash") /\ s.current_options_cash < 0
    THEN s
    ELSE IF ~HasAttr(s, "trade_log") THEN Raise(s, "AttributeError")
    ELSE LET s1 == [s EXCEPT !.trade_log = @ \o exit_signals.exits] IN
         IF ~HasAttr(s1, "options_inventory") THEN Raise(s1, "AttributeError")
         ELSE LET s2 == [s1 EXCEPT !.options_inventory =
                                       DropAt(@, exit_signals.exits_mask, 0)] IN
              IF ~HasAttr(s2, "current_options_cash")
              THEN Raise(s2, "AttributeError")
              ELSE [s2 EXCEPT !.current_options_cash =
                                  @ - SumSeq(exit_signals.total_costs)]

\* Mutant of the exit: the closed positions are dropped from the trade log
\* as well as from the inventory.
ExitDropsLog(s, exit_signals) ==
    [s EXCEPT !.trade_log = DropAt(@, exit_signals.exits_mask, 0) \o exit_signals.exits,
              !.options_inventory = DropAt(@, exit_signals.exits_mask, 0),
              !.current_options_cash = @ - SumSeq(exit_signals.total_costs)]

\* Backtest._execute_exit
_execute_exit(s, exit_signals) ==
    IF ~HasAttr(s, "trade_log") THEN Raise(s, "AttributeError")
    ELSE LET s1 == [s EXCEPT !.trade_log = @ \o exit_signals.exits] IN
         IF ~HasAttr(s1, "options_inventory") THEN Raise(s1, "AttributeError")
         ELSE LET s2 == [s1 EXCEPT !.options_inventory =
                                       DropAt(@, exit_signals.exits_mask, 0)] IN
              IF ~HasAttr(s2, "current_options_cash")
              THEN Raise(s2, "AttributeError")
              ELSE [s2 EXCEPT !.current_options_cash =
                                  @ - SumSeq(exit_signals.total_costs)]

\* ------------------------------------------------------------ valuation
\* Strategy._exit_candidates for one leg: the leg's inventory column joined
\* (left) with the day's option chain on the contract.  A contract that is
\* not quoted has NaN in every joined column.
_exit_candidates(l, inventory, options) ==
    [i \in 1..Len(inventory) |->
        LET c == inventory[i].legs[l] IN
        IF c \in options.quoted
        THEN [type |-> ContractType(c), cost |-> options.cost[c], isnan |-> FALSE]
        ELSE [type |-> NaN, cost |-> 0, isnan |-> TRUE]]

\* leg['cost'].fillna(0, inplace=True)
Fillna(leg, inventory) ==
    [i \in DOMAIN leg |->
        IF leg[i].isnan THEN [leg[i] EXCEPT !.cost = 0, !.isnan = FALSE]
        ELSE leg[i]]

\* leg_candidates after the fillna loop (lines 233-242 and 312-321)
LegCandidates(inventory, options) ==
    [l \in LegIdx |-> Fillna(_exit_candidates(l, inventory, options), inventory)]

RECURSIVE SumFn(_, _)
\* sum of f[i] over a finite set of indices
SumFn(f, idx) ==
    IF idx = {} THEN 0
    ELSE LET i == CHOOSE j \in idx : TRUE IN f[i] + SumFn(f, idx \ {i})

\* sum(leg['cost'] * qty) of one leg over the inventory rows
LegValue(leg, inventory) ==
    SumFn([i \in DOMAIN leg |-> leg[i].cost * inventory[i].qty], DOMAIN leg)

\* calls_value / puts_value (lines 244-249 and 323-328): minus the sum, over
\* the legs in which any row has the given type, of the leg's whole value.
OptionsValue(leg_candidates, inventory, kind) ==
    LET sel == {l \in LegIdx :
                    \E i \in DOMAIN leg_candidates[l] :
                        leg_candidates[l][i].type = kind}
    IN  0 - SumFn([l \in LegIdx |-> LegValue(leg_candidates[l], inventory)], sel)

\* ------------------------------------------------------- float arithmetic
\* Percentages are Python floats.  A float lying next to the fraction a/d is
\* kept exactly as a/d + s / (d * 2^k): k is the position of its last
\* significand bit and s the signed distance, in units of 1 / (d * 2^k),
\* from the fraction (s = 0 when the float is the fraction itself).
Flt(a, d, s, k) == [a |-> a, d |-> d, s |-> s, k |-> k]

\* significand bits of a float (IEEE 754 binary64)
Precision == 53

RECURSIVE Pow2(_)
Pow2(k) == IF k = 0 THEN 1 ELSE 2 * Pow2(k - 1)

RECURSIVE Pow2Mod(_, _)
\* 2^k modulo m
Pow2Mod(k, m) == IF k = 0 THEN 1 % m ELSE (2 * Pow2Mod(k - 1, m)) % m

RECURSIVE Log2Floor(_, _)
\* the binary exponent of a/d > 0: the e with 2^e <= a/d < 2^(e+1)
Log2Floor(a, d) ==
    IF a >= 2 * d THEN Log2Floor(a, 2 * d) + 1
    ELSE IF a < d THEN Log2Floor(2 * a, d) - 1
    ELSE 0

RECURSIVE GCD(_, _)
GCD(m, n) == IF n = 0 THEN m ELSE GCD(n, m % n)

LCM(m, n) == (m \div GCD(m, n)) * n

\* a/d is a power of two
IsPow2(a, d) ==
    LET e == Log2Floor(a, d) IN
    IF e >= 0 THEN a = d * Pow2(e) ELSE a * Pow2(0 - e) = d

\* the position of the last significand bit of a float of the size of
\* a/d + s/(d * 2^k), a/d > 0: just below a power of two the floats are
\* twice as dense
LastBit(a, d, s) ==
    LET e == Log2Floor(a, d) IN
    IF s < 0 /\ IsPow2(a, d) THEN Precision - e ELSE Precision - 1 - e

\* round to nearest, ties to even, of a/d + s/(d * 2^k) for a/d > 0: the
\* float every arithmetic operation returns
FRound(a, d, s, k) ==
    LET K == LastBit(a, d, s)
        sh == IF s = 0 THEN 0 ELSE k - K
        R == ((a % d) * Pow2Mod(K, d)) % d
        R2 == ((a % (2 * d)) * Pow2Mod(K, 2 * d)) % (2 * d)
        \* parity of floor(a * 2^K / d)
        odd == (R2 - R) \div d
        num == R * Pow2(sh) + s
        den == d * Pow2(sh)
        up == (2 * num + den) \div (2 * den)
        tie == (2 * num + den) % (2 * den) = 0
        rho == IF tie /\ (odd + up) % 2 = 1 THEN up - 1 ELSE up
    IN  Flt(a, d, rho * d - R, K)

FZero == Flt(0, 1, 0, 0)

\* the float a literal n/d denotes: the fraction itself when d is a power
\* of two, else the float nearest to it (0.7 is not 7/10)
Lit(percentage) ==
    IF percentage[1] = 0 THEN FZero
    ELSE IF IsPow2(percentage[2], 1) THEN Flt(percentage[1], percentage[2], 0, 0)
    ELSE FRound(percentage[1], percentage[2], 0, 0)

\* x + y for floats x, y >= 0
FAdd(x, y) ==
    IF x.a = 0 THEN y ELSE IF y.a = 0 THEN x ELSE
    LET D == LCM(x.d, y.d)
        k == IF x.s = 0 THEN y.k ELSE IF y.s = 0 THEN x.k
             ELSE IF x.k > y.k THEN x.k ELSE y.k
        sx == IF x.s = 0 THEN 0 ELSE x.s * (D \div x.d) * Pow2(k - x.k)
        sy == IF y.s = 0 THEN 0 ELSE y.s * (D \div y.d) * Pow2(k - y.k)
    IN  FRound(x.a * (D \div x.d) + y.a * (D \div y.d), D, sx + sy, k)

FNeg(x) == Flt(0 - x.a, x.d, 0 - x.s, x.k)

\* c * x for an integer amount c and a float x >= 0; the product with a
\* binary fraction is exact
FMul(c, x) ==
    IF c = 0 \/ x.a = 0 THEN FZero
    ELSE IF x.s = 0 THEN Flt(c * x.a, x.d, 0, 0)
    ELSE IF c < 0 THEN FNeg(FRound((0 - c) * x.a, x.d, (0 - c) * x.s, x.k))
    ELSE FRound(c * x.a, x.d, c * x.s, x.k)

\* x // price for a float x and an integer price > 0: the floor of the
\* quotient, one less than that of the fraction when x lies just below a
\* multiple of the price
FFloorDiv(x, price) ==
    LET q == x.a \div (x.d * price) IN
    IF x.s < 0 /\ q * x.d * price = x.a THEN q - 1 ELSE q

\* x == 1.0
FIsOne(x) == x.s = 0 /\ x.a = x.d

RECURSIVE FSum(_, _, _)
\* sum(stock.percentage for stock in stocks): the floats added left to
\* right, starting from 0
FSum(stocks, k, acc) ==
    IF k > Len(stocks) THEN acc
    ELSE FSum(stocks, k + 1, FAdd(acc, Lit(stocks[k].percentage)))

\* ------------------------------------------------------------ stock side
\* x * (n/d), the float product of an amount and a weight; the weights are
\* binary fractions (halves and quarters), for which the product is exact
Times(x, w) == (x * w[1]) \div w[2]

\* Mutant of the sizing: rounds the quantity up.
StockQtyCeil(capital, percentage, price) ==
    0 - ((0 - capital * percentage[1]) \div (percentage[2] * price))

\* (new_stocks_capital * stock.percentage) // current_stock_price (line 282)
StockQty(capital, percentage, price) ==
    FFloorDiv(FMul(capital, Lit(percentage)), price)

\* rows of the stock inventory for a symbol (stocks_inventory.query)
QuerySymbol(inventory, symbol) ==
    SelectSeq(inventory, LAMBDA r : r.symbol = symbol)

DropSymbol(inventory, symbol) ==
    SelectSeq(inventory, LAMBDA r : r.symbol # symbol)

\* the snapshot of the date has a row for the symbol of the target
Quoted(stocks, stock) == stock.symbol \in DOMAIN stocks

\* current price * held quantity per stock target (lines 254-265)
OldStockCosts(s, stocks) ==
    [k \in 1..Len(s._stocks) |->
        LET q == QuerySymbol(s.stocks_inventory, s._stocks[k].symbol) IN
        stocks[s._stocks[k].symbol] * (IF q = <<>> THEN 0 ELSE q[1].qty)]

\* qty * current price per stock target (lines 277-283)
NewStockCosts(s, stocks, new_stocks_capital) ==
    [k \in 1..Len(s._stocks) |->
        StockQty(new_stocks_capital, s._stocks[k].percentage,
                 stocks[s._stocks[k].symbol]) * stocks[s._stocks[k].symbol]]

RECURSIVE ResizeStocks(_, _, _, _, _)
\* the loop of lines 278-288: per target, drop its row and append the new one
ResizeStocks(inventory, targets, k, stocks, new_stocks_capital) ==
    IF k > Len(targets) THEN inventory
    ELSE LET t == targets[k]
             price == stocks[t.symbol]
             row == [symbol |-> t.symbol, price |-> price,
                     qty |-> StockQty(new_stocks_capital, t.percentage, price)]
         IN  ResizeStocks(DropSymbol(inventory, t.symbol) \o <<row>>,
                          targets, k + 1, stocks, new_stocks_capital)

\* ------------------------------------------------------------- rebalancer
\* lines 268-270: the total is replaced unless the computed capital is zero
NewTotal(s, computed) ==
    IF computed # 0 THEN SetAttr(s, "total_capital", computed) ELSE s

\* lines 272-298: the two allocations, the stock resize, the option cash and
\* the entry
Redistribute(s2, stocks, options, entry_signals) ==
    IF ~HasAttr(s2, "total_capital") THEN Raise(s2, "AttributeError") ELSE
    IF ~HasAttr(s2, "stocks_percentaje") THEN Raise(s2, "AttributeError") ELSE
    IF ~HasAttr(s2, "options_percentaje") THEN Raise(s2, "AttributeError") ELSE
    LET new_stocks_capital == Times(s2.total_capital, s2.stocks_percentaje)
        new_options_capital == Times(s2.total_capital, s2.options_percentaje)
        stocks_costs == NewStockCosts(s2, stocks, new_stocks_capital)
        s3 == IF s2._stocks = <<>> THEN s2
              ELSE [s2 EXCEPT !.stocks_inventory =
                       ResizeStocks(@, s2._stocks, 1, stocks, new_stocks_capital)]
        s4 == SetAttr(s3, "stock_capital", new_stocks_capital)
    IN  Then(s4, LAMBDA t4 :
        LET s5 == SetAttr(t4, "current_stocks_cash",
                          t4.stock_capital - SumSeq(stocks_costs))
            s6 == [s5 EXCEPT !.current_options_cash = @ + (new_options_capital - @)]
            s7 == [s6 EXCEPT !.strategy_initial_capital = new_options_capital]
        IN  Then(s7, LAMBDA t7 :
            Then(_execute_entry(t7, entry_signals), LAMBDA s8 :
                IF ~Ok(s8) THEN s8
                ELSE SetAttr(s8, "options_capital", new_options_capital))))

\* lines 233-270: the valuation of what is held and the new total
Revalue(s1, stocks, options, entry_signals) ==
    IF ~Ok(s1) THEN s1 ELSE
    LET leg_candidates == LegCandidates(s1.options_inventory, options)
        calls_value == OptionsValue(leg_candidates, s1.options_inventory, "call")
        puts_value == OptionsValue(leg_candidates, s1.options_inventory, "put")
        options_capital == calls_value + puts_value
        old_options_capital == s1.current_options_cash + options_capital
    IN
    \* the stock loop reads self.stock_data, the price of the target in the
    \* snapshot (.values[0] of no row when the symbol is not quoted), then
    \* self.stocks_inventory
    IF s1._stocks # <<>> /\ ~HasAttr(s1, "stock_data")
    THEN Raise(s1, "AttributeError") ELSE
    IF s1._stocks # <<>> /\ ~Quoted(stocks, s1._stocks[1])
    THEN Raise(s1, "IndexError") ELSE
    IF s1._stocks # <<>> /\ ~HasAttr(s1, "stocks_inventory")
    THEN Raise(s1, "AttributeError") ELSE
    IF \E k \in 1..Len(s1._stocks) : ~Quoted(stocks, s1._stocks[k])
    THEN Raise(s1, "IndexError") ELSE
    IF ~HasAttr(s1, "current_stocks_cash") THEN Raise(s1, "AttributeError") ELSE
    LET old_stock_capital == s1.current_stocks_cash + SumSeq(OldStockCosts(s1, stocks))
    IN  Then(NewTotal(s1, old_options_capital + old_stock_capital), LAMBDA s2 :
            Redistribute(s2, stocks, options, entry_signals))

\* Mutant of the rebalance: the valuation and the entry run first, the exit
\* pass last.
RebalanceExitLast(s0, stocks, options, exit_signals, entry_signals) ==
    IF ~HasAttr(s0, "options_inventory") THEN Raise(s0, "AttributeError") ELSE
    Then(Revalue(s0, stocks, options, entry_signals), LAMBDA s1 :
        IF ~Ok(s1) THEN s1 ELSE _execute_exit(s1, exit_signals))

\* Backtest._rebalance_portfolio (the second definition, lines 226-298, which
\* replaces the one of lines 143-171 in the class body).
_rebalance_portfolio(s0, stocks, options, exit_signals, entry_signals) ==
    IF ~HasAttr(s0, "options_inventory") THEN Raise(s0, "AttributeError") ELSE
    Then(_execute_exit(s0, exit_signals), LAMBDA s1 :
        Revalue(s1, stocks, options, entry_signals))

\* -------------------------------------------------------- balance tracker
\* Name lookup in the body of _update_balance: a name is a local of the
\* function or it is looked up in the module (lines 1-10 bind np, pd,
\* pyprind, Order, Stock, HistoricalOptionsData, TiingoData, Strategy and
\* Backtest); any other name raises NameError.
ModuleNames == {"np", "pd", "pyprind", "Order", "Stock", "HistoricalOptionsData",
                "TiingoData", "Strategy", "Backtest"}

NameBound(locals, name) == name \in DOMAIN locals \/ name \in ModuleNames

\* the value of a bound local (module names are not numbers)
NameValue(locals, name) == IF name \in DOMAIN locals THEN locals[name] ELSE 0

SumQty(inventory) ==
    SumFn([i \in 1..Len(inventory) |-> inventory[i].qty], 1..Len(inventory))

\* lines 348-360: the record of the date, its entries evaluated in order
AppendRecord(s4, date, locals) ==
    IF ~HasAttr(s4, "_stocks_inventory") THEN Raise(s4, "AttributeError") ELSE
    IF ~HasAttr(s4, "_options_inventory") THEN Raise(s4, "AttributeError") ELSE
    IF ~NameBound(locals, "calls_capital") THEN Raise(s4, "NameError") ELSE
    IF ~NameBound(locals, "puts_capital") THEN Raise(s4, "NameError") ELSE
    LET row == [c \in {"date", "total capital", "cash", "stocks capital",
                       "stocks qty", "options capital", "options qty",
                       "calls capital", "puts capital"} |->
                CASE c = "date" -> date
                  [] c = "total capital" -> s4.stock_capital + s4.options_capital
                  [] c = "cash" -> s4.current_stocks_cash + s4.current_options_cash
                  [] c = "stocks capital" -> s4.stock_capital
                  [] c = "stocks qty" -> SumQty(s4._stocks_inventory)
                  [] c = "options capital" -> NameValue(locals, "options_capital")
                  [] c = "options qty" -> SumQty(s4._options_inventory)
                  [] c = "calls capital" -> NameValue(locals, "calls_capital")
                  [] c = "puts capital" -> NameValue(locals, "puts_capital")]
    IN  IF ~HasAttr(s4, "balance") THEN Raise(s4, "AttributeError")
        ELSE [s4 EXCEPT !.balance = @ \o <<row>>]

\* Mutant of the marks: the marked option capital is also written into the
\* option-side cash, as if the positions had been realised.
MarkToMarketRealises(s1, date, stocks, options) ==
    IF ~Ok(s1) THEN s1 ELSE
    LET leg_candidates == LegCandidates(s1.options_inventory, options)
        calls_value == OptionsValue(leg_candidates, s1.options_inventory, "call")
        puts_value == OptionsValue(leg_candidates, s1.options_inventory, "put")
        options_capital == calls_value + puts_value
    IN  Then(SetAttr(SetAttr(s1, "options_capital",
                             s1.current_options_cash + options_capital),
                     "current_options_cash",
                     s1.current_options_cash + options_capital),
             LAMBDA s2 :
        IF s2._stocks # <<>> /\ ~HasAttr(s2, "stock_data")
        THEN Raise(s2, "AttributeError") ELSE
        IF s2._stocks # <<>> /\ ~Quoted(stocks, s2._stocks[1])
        THEN Raise(s2, "IndexError") ELSE
        IF s2._stocks # <<>> /\ ~HasAttr(s2, "stocks_inventory")
        THEN Raise(s2, "AttributeError") ELSE
        IF \E k \in 1..Len(s2._stocks) : ~Quoted(stocks, s2._stocks[k])
        THEN Raise(s2, "IndexError") ELSE
        IF \E k \in 1..Len(s2._stocks) :
               QuerySymbol(s2.stocks_inventory, s2._stocks[k].symbol) = <<>>
        THEN Raise(s2, "IndexError") ELSE
        IF ~HasAttr(s2, "current_stocks_cash") THEN Raise(s2, "AttributeError") ELSE
        LET total_value == SumSeq(OldStockCosts(s2, stocks))
            s3 == SetAttr(s2, "stock_capital", total_value + s2.current_stocks_cash)
            locals == [calls_value |-> calls_value, puts_value |-> puts_value,
                       options_capital |-> options_capital,
                       total_value |-> total_value]
        IN  Then(SetAttr(s3, "total_capital", s3.stock_capital + s3.options_capital),
                 LAMBDA s4 : AppendRecord(s4, date, locals)))

\* lines 311-346: the marks of the options and of the stocks
MarkToMarket(s1, date, stocks, options) ==
    IF ~Ok(s1) THEN s1 ELSE
    LET leg_candidates == LegCandidates(s1.options_inventory, options)
        calls_value == OptionsValue(leg_candidates, s1.options_inventory, "call")
        puts_value == OptionsValue(leg_candidates, s1.options_inventory, "put")
        options_capital == calls_value + puts_value
    IN  Then(SetAttr(s1, "options_capital", s1.current_options_cash + options_capital),
             LAMBDA s2 :
        IF s2._stocks # <<>> /\ ~HasAttr(s2, "stock_data")
        THEN Raise(s2, "AttributeError") ELSE
        IF s2._stocks # <<>> /\ ~Quoted(stocks, s2._stocks[1])
        THEN Raise(s2, "IndexError") ELSE
        IF s2._stocks # <<>> /\ ~HasAttr(s2, "stocks_inventory")
        THEN Raise(s2, "AttributeError") ELSE
        IF \E k \in 1..Len(s2._stocks) : ~Quoted(stocks, s2._stocks[k])
        THEN Raise(s2, "IndexError") ELSE
        \* stock_inventory['qty'].values[0] of a target that holds no row
        IF \E k \in 1..Len(s2._stocks) :
               QuerySymbol(s2.stocks_inventory, s2._stocks[k].symbol) = <<>>
        THEN Raise(s2, "IndexError") ELSE
        IF ~HasAttr(s2, "current_stocks_cash") THEN Raise(s2, "AttributeError") ELSE
        LET total_value == SumSeq(OldStockCosts(s2, stocks))
            s3 == SetAttr(s2, "stock_capital", total_value + s2.current_stocks_cash)
            locals == [calls_value |-> calls_value, puts_value |-> puts_value,
                       options_capital |-> options_capital,
                       total_value |-> total_value]
        IN  Then(SetAttr(s3, "total_capital", s3.stock_capital + s3.options_capital),
                 LAMBDA s4 : AppendRecord(s4, date, locals)))

\* Backtest._update_balance (lines 300-360)
_update_balance(s0, date, stocks, options, exit_signals) ==
    IF ~HasAttr(s0, "options_inventory") THEN Raise(s0, "AttributeError") ELSE
    Then(_execute_exit(s0, exit_signals), LAMBDA s1 :
        MarkToMarket(s1, date, stocks, options))

\* ----------------------------------------------------------- construction
Assets == <<"stocks", "options", "cash">>

\* allocation.get(a, 0.0)
Get(allocation, a) == IF a \in DOMAIN allocation THEN allocation[a] ELSE 0

\* total_allocation (line 16)
TotalAllocation(allocation) ==
    Get(allocation, "stocks") + Get(allocation, "options") + Get(allocation, "cash")

\* Mutant of the normalisation: the cash weight is left out of the divisor.
NormaliseNoCash(allocation, a) ==
    <<Get(allocation, a), Get(allocation, "stocks") + Get(allocation, "options")>>

\* allocation.get(asset, 0.0) / total_allocation (line 20), as a fraction
Normalise(allocation, a) == <<Get(allocation, a), TotalAllocation(allocation)>>

\* Backtest.__init__ (lines 12-28).  A weight is the pair <<n, d>> for n/d.
\* Attributes __init__ does not assign hold a placeholder and are not in has.
New(allocation, initial_capital) ==
    LET total_allocation == TotalAllocation(allocation)
    IN  [has |-> {},
         err |-> IF total_allocation = 0 THEN "ZeroDivisionError" ELSE "none",
         allocation |-> [a \in {"stocks", "options", "cash"} |->
                            Normalise(allocation, a)],
         current_cash |-> initial_capital,
         initial_capital |-> initial_capital,
         stop_if_broke |-> TRUE,
         _stocks |-> <<>>,
         _options_strategy |-> "None",
         strategy_schema |-> "",
         strategy_initial_capital |-> 0,
         _stocks_data |-> "None",
         stocks_data_dates |-> <<>>,
         _options_data |-> "None",
         options_data_dates |-> <<>>,
         options_data_schema |-> "",
         _stock_data |-> <<>>,
         stock_data |-> <<>>,
         _options_inventory |-> <<>>,
         _stocks_inventory |-> <<>>,
         options_inventory |-> <<>>,
         stocks_inventory |-> <<>>,
         trade_log |-> <<>>,
         balance |-> <<>>,
         current_options_cash |-> 0,
         current_stocks_cash |-> 0,
         total_capital |-> 0,
         stocks_percentaje |-> <<0, 1>>,
         options_percentaje |-> <<0, 1>>,
         stock_capital |-> 0,
         options_capital |-> 0]

\* Backtest._initialize_inventories (lines 118-126).  Line 121 reads the legs
\* of the strategy first: with no strategy attached (None) it raises and
\* binds nothing.
_initialize_inventories(s) ==
    IF s._options_strategy = "None" THEN Raise(s, "AttributeError") ELSE
    SetAttr(SetAttr(s, "_options_inventory", <<>>), "_stocks_inventory", <<>>)

\* sum(stock.percentage for stock in stocks) == 1.0 (line 37), on floats
PercentagesSumToOne(stocks) == FIsOne(FSum(stocks, 1, FZero))

\* isinstance(stock, Stock): a Stock has a symbol and a percentage
IsStock(stock) == DOMAIN stock = {"symbol", "percentage"}

\* Mutant of the stocks setter: the list is stored before it is validated.
SetStocksStoreFirst(s, stocks) ==
    LET s1 == [s EXCEPT !._stocks = stocks] IN
    IF \E k \in 1..Len(stocks) : ~IsStock(stocks[k]) THEN Raise(s1, "AssertionError")
    ELSE IF ~PercentagesSumToOne(stocks) THEN Raise(s1, "AssertionError")
    ELSE s1

\* the stocks setter (lines 34-39)
set_stocks(s, stocks) ==
    IF \E k \in 1..Len(stocks) : ~IsStock(stocks[k]) THEN Raise(s, "AssertionError")
    ELSE IF ~PercentagesSumToOne(stocks) THEN Raise(s, "AssertionError")
    ELSE [s EXCEPT !._stocks = stocks]

\* the strategy setter (lines 45-49)
set_strategy(s, strat) ==
    [s EXCEPT !._options_strategy = "Strategy",
              !.strategy_schema = strat.schema,
              !.strategy_initial_capital = strat.initial_capital,
              !.current_cash = strat.initial_capital]

\* the stocks_data setter (lines 55-59)
set_stocks_data(s, data) ==
    [s EXCEPT !._stocks_data = "TiingoData", !.stocks_data_dates = data.dates]

\* the options_data setter (lines 65-69)
set_options_data(s, data) ==
    [s EXCEPT !._options_data = "HistoricalOptionsData",
              !.options_data_dates = data.dates,
              !.options_data_schema = data.schema]

\* ------------------------------------------------------------------ run()
RECURSIVE Unique(_, _)
\* Series.unique(): the distinct values in order of first appearance
Unique(dates, seen) ==
    IF dates = <<>> THEN <<>>
    ELSE IF Head(dates) \in seen THEN Unique(Tail(dates), seen)
         ELSE <<Head(dates)>> \o Unique(Tail(dates), seen \cup {Head(dates)})

\* pd.date_range(first_date, end_date, freq=str(rebalance_freq) + 'BMS') if
\* rebalance_freq else [] (lines 99-101).  The dates of the feed are
\* consecutive business-month starts.
RebalancingDays(first_date, end_date, rebalance_freq) ==
    IF rebalance_freq = 0 THEN {}
    ELSE {d \in first_date..end_date : (d - first_date) % rebalance_freq = 0}

\* a cell of a balance column: NaN or the fraction num/den
NaNCell == [nan |-> TRUE, num |-> 0, den |-> 1]
Cell(n, d) == [nan |-> FALSE, num |-> n, den |-> d]

\* balance['total_capital'], padded forward as pct_change() pads it
RECURSIVE PaddedTotals(_, _)
PaddedTotals(balance, last) ==
    IF balance = <<>> THEN <<>>
    ELSE LET r == Head(balance)
             v == IF "total_capital" \in DOMAIN r THEN Cell(r["total_capital"], 1)
                  ELSE last
         IN  <<v>> \o PaddedTotals(Tail(balance), v)

\* lines 113-114: '% change' and 'accumulated return'
PctChange(totals, k) ==
    IF k = 1 \/ totals[k].nan \/ totals[k - 1].nan THEN NaNCell
    ELSE Cell(totals[k].num - totals[k - 1].num, totals[k - 1].num)

RECURSIVE CumProd(_, _, _)
\* (1.0 + pct).cumprod(): NaN cells stay NaN and are skipped by the product
CumProd(pct, k, acc) ==
    IF k > Len(pct) THEN <<>>
    ELSE IF pct[k].nan THEN <<NaNCell>> \o CumProd(pct, k + 1, acc)
    ELSE LET a == Cell(acc.num * (pct[k].den + pct[k].num), acc.den * pct[k].den)
         IN  <<a>> \o CumProd(pct, k + 1, a)

Finalise(s) ==
    LET totals == PaddedTotals(s.balance, NaNCell)
        pct == [k \in 1..Len(totals) |-> PctChange(totals, k)]
        acc == CumProd(pct, 1, Cell(1, 1))
    IN  [s EXCEPT !.balance =
            [k \in 1..Len(@) |->
                [c \in DOMAIN @[k] \cup {"% change", "accumulated return"} |->
                    IF c = "% change" THEN pct[k]
                    ELSE IF c = "accumulated return" THEN acc[k]
                    ELSE @[k][c]]]]

\* run(), lines 82-104: the checks and the set-up before the loop
RunBegin(s) ==
    IF s._stocks_data = "None" THEN Raise(s, "AssertionError") ELSE
    IF s._options_data = "None" THEN Raise(s, "AssertionError") ELSE
    IF s._options_strategy = "None" THEN Raise(s, "AssertionError") ELSE
    IF s.options_data_schema # s.strategy_schema THEN Raise(s, "AssertionError") ELSE
    IF ~HasAttr(s, "_stock_data") THEN Raise(s, "AttributeError") ELSE
    IF Unique(s._stock_data, {}) # Unique(s.options_data_dates, {})
    THEN Raise(s, "AssertionError") ELSE
    LET s1 == _initialize_inventories(s)
        s2 == SetAttr(s1, "trade_log", <<>>)
    IN
    IF ~HasAttr(s2, "stock_data") THEN Raise(s2, "AttributeError") ELSE
    SetAttr(s2, "balance",
            <<[c \in {"date", "total_capital", "total_cash"} |->
                 IF c = "date" THEN Head(s2.stock_data) - 1 ELSE s2.current_cash]>>)

\* --------------------------------------------------------------- inputs
\* One date of the two feeds: the stock quotes (adjClose by symbol) and the
\* option chain (the quoted contracts and the cost of closing one).
Snapshot(px, py, quoted, c1, p1) ==
    [stocks |-> [X |-> px, Y |-> py],
     options |-> [quoted |-> quoted, cost |-> [C1 |-> c1, P1 |-> p1]]]

Snapshots ==
    { Snapshot(2 * Unit, 3 * Unit, {"C1", "P1"}, 0 - Unit, 0 - 2 * Unit),
      Snapshot(3 * Unit, 3 * Unit, {"P1"}, 0, 0 - Unit),
      Snapshot(3 * Unit, 2 * Unit, {"C1", "P1"}, Unit, 0 - Unit) }

\* Candidate rows of Strategy.filter_entries: the contract of each leg and
\* the totals (cost, qty).
Entry(legs, cost, qty, order) ==
    [legs |-> legs, cost |-> cost, qty |-> qty, order |-> order]

E1 == Entry(<<"C1", "P1">>, Unit, 1, "BTO")
E2 == Entry(<<"P1", "C1">>, 2 * Unit, 2, "BTO")
E3 == Entry(<<"C1", "C1">>, 0 - Unit, 1, "STO")

\* ranked candidate lists
EntrySignals == { <<>>, <<E1, E2>>, <<E2, E1>>, <<E3>> }

ExitCosts == {0 - Unit, Unit}

\* Results of Strategy.filter_exits on an inventory: the mask (positions of
\* the rows to close), one exit row per masked row and the cost of each.
MaskedRows(inventory, mask) ==
    SelectSeq([i \in 1..Len(inventory) |-> [pos |-> i, row |-> inventory[i]]],
              LAMBDA r : r.pos \in mask)

ExitSignal(inventory, mask, cost) ==
    LET m == MaskedRows(inventory, mask) IN
    [exits |-> [k \in 1..Len(m) |-> Entry(m[k].row.legs, cost, m[k].row.qty, "STC")],
     exits_mask |-> mask,
     total_costs |-> [k \in 1..Len(m) |-> cost * m[k].row.qty]]

ExitSignals(inventory) ==
    { ExitSignal(inventory, mask, cost) :
        mask \in SUBSET (1..Len(inventory)), cost \in ExitCosts }

\* Stock targets (Stock(symbol, percentage)) accepted by the stocks setter.
Target(symbol, n, d) == [symbol |-> symbol, percentage |-> <<n, d>>]

StockLists == { <<Target("X", 1, 1)>>, <<Target("X", 1, 2), Target("Y", 1, 2)>> }

\* targets whose percentages are not binary fractions: 0.7 and 0.3
DecimalStocks == <<Target("X", 7, 10), Target("Y", 3, 10)>>

\* Attributes no method of the class initialises, as the caller assigns
\* them before calling a method: the two cash pools, the tracked total, the
\* two weights, the inventories, the stock feed under the names run() reads
\* and the strategy under the name summary() reads (_strategy).
Assign(s, options_cash, total, w_stocks, w_options) ==
    LET a1 == SetAttr(s, "current_options_cash", options_cash)
        a2 == SetAttr(a1, "current_stocks_cash", 0)
        a3 == SetAttr(a2, "stocks_percentaje", w_stocks)
        a4 == SetAttr(a3, "options_percentaje", w_options)
        a5 == SetAttr(a4, "options_inventory", <<>>)
        a6 == SetAttr(a5, "stocks_inventory", <<>>)
        a7 == SetAttr(a6, "stock_data", [k \in 1..NumDates |-> k])
        a8 == SetAttr(a7, "_stock_data", [k \in 1..NumDates |-> k])
        a9 == [a8 EXCEPT !.has = @ \cup {"_strategy"}]
    IN  IF total = 0 THEN a9 ELSE SetAttr(a9, "total_capital", total)

Weights == { <<<<1, 2>>, <<1, 2>>>>, <<<<0, 1>>, <<1, 1>>>>, <<<<1, 2>>, <<0, 1>>>> }

TheStrategy == [schema |-> "options", initial_capital |-> 4 * Unit]

\* ---------------------------------------------------- direct method calls
\* The object the methods are called on: constructed, the strategy attached,
\* stock targets set or left at the default, the inventories initialised,
\* and the attributes the methods read assigned by the caller.
Fresh ==
    LET base == _initialize_inventories(
                    SetAttr(SetAttr(
                        set_strategy(New([stocks |-> 1, options |-> 1], 4 * Unit),
                                     TheStrategy),
                        "trade_log", <<>>), "balance", <<>>))
    IN  { [Assign(IF stocks = <<>> THEN base ELSE set_stocks(base, stocks),
                  c[2], total, w[1], w[2])
             EXCEPT !.stop_if_broke = c[1]] :
            stocks \in StockLists \cup {<<>>},
            c \in {<<TRUE, 0>>, <<TRUE, 10 * Unit>>, <<FALSE, 0>>},
            total \in {0, 4 * Unit},
            w \in Weights }

\* an object with decimal targets and option cash of 180 units, half of
\* which a rebalance allocates to the stocks
DecimalObjects ==
    LET base == _initialize_inventories(
                    SetAttr(SetAttr(
                        set_strategy(New([stocks |-> 1, options |-> 1], 4 * Unit),
                                     TheStrategy),
                        "trade_log", <<>>), "balance", <<>>))
    IN  { Assign(set_stocks(base, DecimalStocks), 180 * Unit, 0,
                 <<1, 2>>, <<1, 2>>) }

\* ... and possibly one position already entered, on credit: by an object
\* with stock targets that does not stop when broke (it holds no option
\* cash).
Objects ==
    Fresh \cup DecimalObjects
          \cup { _execute_entry(o, <<E2>>) :
                    o \in { f \in Fresh : (~f.stop_if_broke) /\ f._stocks # <<>> } }

Init ==
    /\ bt \in Objects
    /\ pre = bt
    /\ call = [op |-> "none"]
    /\ ncalls = 0
    /\ pc = "idle"
    /\ day = 0

CanCall == pc = "idle" /\ Ok(bt) /\ ncalls < MaxCalls

Called(op) ==
    /\ pre' = bt
    /\ ncalls' = ncalls + 1
    /\ UNCHANGED <<pc, day>>

ExecuteEntry ==
    /\ CanCall
    /\ Len(bt.options_inventory) < MaxRows
    /\ \E entry_signals \in EntrySignals :
        /\ bt' = _execute_entry(bt, entry_signals)
        /\ call' = [op |-> "_execute_entry", entry_signals |-> entry_signals]
    /\ Called("_execute_entry")

ExecuteExit ==
    /\ CanCall
    /\ \E exit_signals \in ExitSignals(bt.options_inventory) :
        /\ bt' = _execute_exit(bt, exit_signals)
        /\ call' = [op |-> "_execute_exit", exit_signals |-> exit_signals]
    /\ Called("_execute_exit")

RebalancePortfolio ==
    /\ CanCall
    /\ Len(bt.options_inventory) < MaxRows
    /\ \E m \in Snapshots, exit_signals \in ExitSignals(bt.options_inventory),
          entry_signals \in EntrySignals :
        /\ bt' = _rebalance_portfolio(bt, m.stocks, m.options, exit_signals,
                                      entry_signals)
        /\ call' = [op |-> "_rebalance_portfolio", date |-> ncalls + 1,
                    stocks |-> m.stocks, options |-> m.options,
                    exit_signals |-> exit_signals, entry_signals |-> entry_signals]
    /\ Called("_rebalance_portfolio")

UpdateBalance ==
    /\ CanCall
    /\ \E m \in Snapshots, exit_signals \in ExitSignals(bt.options_inventory) :
        /\ bt' = _update_balance(bt, ncalls + 1, m.stocks, m.options, exit_signals)
        /\ call' = [op |-> "_update_balance", date |-> ncalls + 1,
                    stocks |-> m.stocks, options |-> m.options,
                    exit_signals |-> exit_signals]
    /\ Called("_update_balance")

Next == ExecuteEntry \/ ExecuteExit \/ RebalancePortfolio \/ UpdateBalance

Spec == Init /\ [][Next]_vars

\* ------------------------------------------------------- configure and run
Asc == [k \in 1..NumDates |-> k]

\* date columns of a feed: ascending, with a repeated row, in another order,
\* and one date short
DateColumns == { Asc, <<1>> \o Asc, [k \in 1..NumDates |-> NumDates + 1 - k],
                 SubSeq(Asc, 1, NumDates - 1) }

OptionFeeds == [dates : DateColumns, schema : {"options", "other"}]
StockFeeds == [dates : {Asc, SubSeq(Asc, 1, NumDates - 1)}]

Allocations == { [stocks |-> 1, options |-> 1], [stocks |-> 1, options |-> 2, cash |-> 1] }

\* The object run() is called on: constructed from an allocation, and either
\* nothing else assigned or the attributes of Assign assigned by the caller.
RunObjects(allocation) ==
    { New(allocation, 4 * Unit) }
    \cup
    { Assign(New(allocation, 4 * Unit), options_cash, total, w[1], w[2]) :
        options_cash \in {0, 10 * Unit}, total \in {0, 4 * Unit}, w \in Weights }

InitRun ==
    /\ \E allocation \in Allocations :
        /\ bt \in RunObjects(allocation)
        /\ call = [op |-> "__init__", allocation |-> allocation,
                   initial_capital |-> 4 * Unit]
    /\ pre = bt
    /\ ncalls = 0
    /\ pc = "new"
    /\ day = 0

Configuring == pc = "new" /\ Ok(bt)

\* lists the stocks setter refuses: percentages short of 1, no target at
\* all, and a list holding an object that is not a Stock
BadStockLists == { <<Target("X", 1, 2)>>, <<>>,
                   <<Target("X", 1, 1), [symbol |-> "Y"]>> }

\* lists of decimal percentages that add up to one as fractions, in two
\* orders, and the two-target list
DecimalStockLists ==
    { <<Target("X", 7, 10), Target("Y", 2, 10), Target("Z", 1, 10)>>,
      <<Target("Z", 1, 10), Target("Y", 2, 10), Target("X", 7, 10)>>,
      DecimalStocks }

SetStocks ==
    /\ Configuring
    /\ \E stocks \in StockLists \cup BadStockLists \cup DecimalStockLists :
        /\ bt' = set_stocks(bt, stocks)
        /\ call' = [op |-> "stocks", stocks |-> stocks]
    /\ pre' = bt
    /\ UNCHANGED <<ncalls, pc, day>>

SetStrategy ==
    /\ Configuring /\ bt._options_strategy = "None"
    /\ bt' = set_strategy(bt, TheStrategy)
    /\ call' = [op |-> "strategy"]
    /\ pre' = bt
    /\ UNCHANGED <<ncalls, pc, day>>

SetStocksData ==
    /\ Configuring /\ bt._stocks_data = "None"
    /\ \E data \in StockFeeds :
        /\ bt' = set_stocks_data(bt, data)
        /\ call' = [op |-> "stocks_data", data |-> data]
    /\ pre' = bt
    /\ UNCHANGED <<ncalls, pc, day>>

SetOptionsData ==
    /\ Configuring /\ bt._options_data = "None"
    /\ \E data \in OptionFeeds :
        /\ bt' = set_options_data(bt, data)
        /\ call' = [op |-> "options_data", data |-> data]
    /\ pre' = bt
    /\ UNCHANGED <<ncalls, pc, day>>

Frequencies == {0, 1, 2}

\* run(rebalance_freq): lines 82-104
RunStart ==
    /\ Configuring
    /\ \E rebalance_freq \in Frequencies :
        LET s == RunBegin(bt) IN
        /\ bt' = s
        /\ pc' = IF Ok(s) THEN "loop" ELSE "failed"
        /\ call' = [op |-> "run",
                    rebalance_freq |-> rebalance_freq,
                    rebalancing_days |->
                        IF Ok(s) THEN RebalancingDays(Head(s.stock_data),
                                                      s.stock_data[Len(s.stock_data)],
                                                      rebalance_freq)
                        ELSE {},
                    dates |-> IF Ok(s) THEN Unique(s._stock_data, {}) ELSE <<>>,
                    rebalanced |-> <<>>,
                    tracked |-> <<>>]
    /\ pre' = bt
    /\ day' = 0
    /\ UNCHANGED ncalls

\* one iteration of the loop of lines 106-111 and, after the last date,
\* lines 113-116
RunStep ==
    /\ pc = "loop"
    /\ day < Len(call.dates)
    /\ LET date == call.dates[day + 1]
           rebalance == date \in call.rebalancing_days \/ date = Head(bt.stock_data)
           last == day + 1 = Len(call.dates)
       IN  \E m \in Snapshots, exit_signals \in ExitSignals(bt.options_inventory),
              entry_signals \in EntrySignals :
            \E s1 \in { IF rebalance
                        THEN _rebalance_portfolio(bt, m.stocks, m.options,
                                                  exit_signals, entry_signals)
                        ELSE bt } :
              \E exits2 \in ExitSignals(s1.options_inventory) :
                \E s2 \in { IF Ok(s1)
                            THEN _update_balance(s1, date, m.stocks, m.options, exits2)
                            ELSE s1 } :
                     /\ bt' = IF Ok(s2) /\ last THEN Finalise(s2) ELSE s2
                     /\ pc' = IF ~Ok(s2) THEN "failed"
                              ELSE IF last THEN "finished" ELSE "loop"
                     /\ call' = [call EXCEPT
                                   !.rebalanced = IF rebalance THEN Append(@, date) ELSE @,
                                   !.tracked = IF Ok(s1) THEN Append(@, date) ELSE @]
    /\ pre' = bt
    /\ day' = day + 1
    /\ UNCHANGED ncalls

\* ---------------------------------------------------------------- summary
\* df['totals']['capital'] of lines 366-368: the running sum of
\* -cost * qty over the log rows plus the strategy's initial capital
WithCapital(log, initial_capital) ==
    [k \in 1..Len(log) |->
        [legs |-> log[k].legs, cost |-> log[k].cost, qty |-> log[k].qty,
         order |-> log[k].order,
         capital |-> initial_capital
                     - SumFn([j \in 1..k |-> log[j].cost * log[j].qty], 1..k)]]

\* lines 372-388: some entry row (order BTO or STO) has an exit row with the
\* same contract on the first leg, so that costs holds at least one value
HasRoundTrip(log) ==
    \E i, j \in 1..Len(log) :
        /\ log[i].order \in {"BTO", "STO"}
        /\ log[j].order \notin {"BTO", "STO"}
        /\ log[i].legs[1] = log[j].legs[1]

\* Backtest.summary (lines 362-441).  df is self.trade_log itself, so the
\* column assignment of line 366 writes into the trade log.  has_columns
\* tells whether a trade log without rows has the 'totals' columns (it has
\* them when an empty exit frame with columns was appended to it).  The
\* statistics of lines 372-441 read df and balance and write neither; with
\* no completed round trip costs is empty and np.max(costs) raises (line 402).
summary(s, has_columns) ==
    IF ~HasAttr(s, "trade_log") THEN Raise(s, "AttributeError") ELSE
    IF ~HasAttr(s, "balance") THEN Raise(s, "AttributeError") ELSE
    IF s.trade_log = <<>> /\ ~has_columns THEN Raise(s, "KeyError") ELSE
    IF ~HasAttr(s, "_strategy") THEN Raise(s, "AttributeError") ELSE
    Then([s EXCEPT !.trade_log = WithCapital(@, s.strategy_initial_capital)],
         LAMBDA s1 :
            IF s1.balance = <<>> \/ "% change" \notin DOMAIN s1.balance[1]
            THEN Raise(s1, "KeyError")
            ELSE IF ~HasRoundTrip(s1.trade_log) THEN Raise(s1, "ValueError")
            ELSE s1)

\* summary() called after run() has returned or raised
Summary ==
    /\ pc \in {"failed", "finished"}
    /\ \E has_columns \in BOOLEAN :
        /\ has_columns \/ (HasAttr(bt, "trade_log") /\ bt.trade_log = <<>>)
        /\ bt' = summary([bt EXCEPT !.err = "none"], has_columns)
        /\ call' = [op |-> "summary", has_columns |-> has_columns]
    /\ pre' = bt
    /\ pc' = "summarised"
    /\ UNCHANGED <<ncalls, day>>

NextRun ==
    SetStocks \/ SetStrategy \/ SetStocksData \/ SetOptionsData \/ RunStart \/ RunStep
        \/ Summary

SpecRun == InitRun /\ [][NextRun]_vars

\* ================================================================ claims
LastCallIs(op) == call.op = op

\* the candidate an entry call considers and its price
TopCandidate == Head(call.entry_signals)
TopPrice == TopCandidate.cost * TopCandidate.qty

\* C1: Entry admission.  For every call of the entry operation with a
\* non-empty candidate list: with stop_if_broke set the top candidate is
\* filled if and only if option cash >= cost * qty, with the flag cleared it
\* is always filled; a fill appends the row to the option inventory and to
\* the trade log and debits exactly cost * qty from option cash; a rejection
\* leaves the three unchanged.
C1_EntryAdmission ==
    (LastCallIs("_execute_entry") /\ call.entry_signals # <<>>) =>
        IF (~pre.stop_if_broke) \/ pre.current_options_cash >= TopPrice
        THEN /\ bt.options_inventory = Append(pre.options_inventory, TopCandidate)
             /\ bt.trade_log = Append(pre.trade_log, TopCandidate)
             /\ bt.current_options_cash = pre.current_options_cash - TopPrice
        ELSE /\ bt.options_inventory = pre.options_inventory
             /\ bt.trade_log = pre.trade_log
             /\ bt.current_options_cash = pre.current_options_cash

\* C1 witness: a candidate offered with the check enabled and too little
\* option cash was rejected.
C1_Witness ==
    /\ LastCallIs("_execute_entry") /\ call.entry_signals # <<>>
    /\ pre.stop_if_broke
    /\ pre.current_options_cash < TopPrice
    /\ bt.options_inventory = pre.options_inventory

\* positions of the pre-call inventory an exit call keeps
KeptPositions == (1..Len(pre.options_inventory)) \ call.exit_signals.exits_mask
RankKept(i) == Cardinality({j \in KeptPositions : j <= i})

\* C2: Exit execution.  For every exit call exactly the masked rows leave the
\* option inventory and every other row stays, the trade log grows by one
\* entry per exited row, option cash changes by minus the sum of the cost
\* vector, and the call is never refused, whatever the cash and the flag.
C2_ExitExecution ==
    LastCallIs("_execute_exit") =>
        /\ Ok(bt)
        /\ Len(bt.options_inventory) = Cardinality(KeptPositions)
        /\ \A i \in KeptPositions :
              bt.options_inventory[RankKept(i)] = pre.options_inventory[i]
        /\ Len(bt.trade_log) =
              Len(pre.trade_log) + Cardinality(call.exit_signals.exits_mask)
        /\ SubSeq(bt.trade_log, 1, Len(pre.trade_log)) = pre.trade_log
        /\ bt.current_options_cash =
              pre.current_options_cash - SumSeq(call.exit_signals.total_costs)

\* C2 witness: with option cash negative, an exit closed one of two held
\* positions and kept the other.
C2_Witness ==
    /\ LastCallIs("_execute_exit")
    /\ pre.current_options_cash < 0
    /\ Len(pre.options_inventory) = 2
    /\ Cardinality(call.exit_signals.exits_mask) = 1
    /\ Len(bt.options_inventory) = 1

\* rows the last rebalance added to the trade log beyond its exits: the fills
RebalanceFills ==
    Len(bt.trade_log) - Len(pre.trade_log)
        - Cardinality(call.exit_signals.exits_mask)

StockRowsOf(s, symbol) == Len(QuerySymbol(s.stocks_inventory, symbol))

\* C3: Rebalance liquidates fully.  After a rebalance no option position
\* held before it is still held (selected by the exit signals or not): the
\* option inventory holds only the position entered during the rebalance, if
\* any; the stock inventory holds exactly one row per stock target.
C3_RebalanceLiquidates ==
    (LastCallIs("_rebalance_portfolio") /\ Ok(bt)) =>
        /\ Len(bt.options_inventory) = RebalanceFills
        /\ Len(bt.stocks_inventory) = Len(bt._stocks)
        /\ \A k \in 1..Len(bt._stocks) : StockRowsOf(bt, bt._stocks[k].symbol) = 1

LastRecord == bt.balance[Len(bt.balance)]

\* C4: Balance record invariant.  Every date the Balance Tracker processes
\* gets a record whose total capital equals its stock capital plus its
\* option capital, the option capital being option cash + call capital + put
\* capital and the stock capital the marked stock value + stock cash.
C4_BalanceRecord ==
    LastCallIs("_update_balance") =>
        /\ Len(bt.balance) = Len(pre.balance) + 1
        /\ LastRecord["total capital"] =
              LastRecord["stocks capital"] + LastRecord["options capital"]
        /\ LastRecord["options capital"] =
              bt.current_options_cash + LastRecord["calls capital"]
                  + LastRecord["puts capital"]

\* the row of a stock target after a rebalance, and the dollars allocated to
\* the target as the fraction AllocNum / AllocDen
TargetRow(k) == QuerySymbol(bt.stocks_inventory, bt._stocks[k].symbol)[1]
AllocNum(k) == bt.total_capital * bt.stocks_percentaje[1] * bt._stocks[k].percentage[1]
AllocDen(k) == bt.stocks_percentaje[2] * bt._stocks[k].percentage[2]
Spent == SumFn([k \in 1..Len(bt._stocks) |-> TargetRow(k).qty * TargetRow(k).price],
               1..Len(bt._stocks))

\* floor sizing of every target and the stock cash left by the rebalance
StockSizing ==
    /\ \A k \in 1..Len(bt._stocks) :
          /\ TargetRow(k).price = call.stocks[bt._stocks[k].symbol]
          /\ TargetRow(k).qty * TargetRow(k).price * AllocDen(k) <= AllocNum(k)
          /\ AllocNum(k) < (TargetRow(k).qty + 1) * TargetRow(k).price * AllocDen(k)
    /\ (bt.current_stocks_cash + Spent) * bt.stocks_percentaje[2] =
          bt.total_capital * bt.stocks_percentaje[1]

\* C5 as stated: after every rebalance each target holds
\* floor(stocks_allocation * percentage / price) shares, stock cash is
\* stocks_allocation minus the dollars spent, and stock cash is never negative.
C5_StockSizingOriginal ==
    (LastCallIs("_rebalance_portfolio") /\ Ok(bt)) =>
        (StockSizing /\ bt.current_stocks_cash >= 0)

\* C5, Stock sizing, with the stock cash bound taken where it can hold:
\* after every rebalance each target holds
\* floor(stocks_allocation * percentage / price) shares, stock cash is the
\* stocks allocation minus the dollars spent, and stock cash is never
\* negative when at least one stock target is configured or the stocks
\* allocation is not negative.
C5_StockSizing ==
    (LastCallIs("_rebalance_portfolio") /\ Ok(bt)) =>
        /\ StockSizing
        /\ (bt._stocks # <<>> \/ bt.stock_capital >= 0) => bt.current_stocks_cash >= 0

\* What the float product of line 282 keeps of C5: a target never holds
\* more than the floor, and at most one share less; stock cash is the
\* stocks allocation minus the dollars spent.
C5_SizingWithinOne ==
    (LastCallIs("_rebalance_portfolio") /\ Ok(bt)) =>
        /\ \A k \in 1..Len(bt._stocks) :
              /\ TargetRow(k).qty * TargetRow(k).price * AllocDen(k) <= AllocNum(k)
              /\ AllocNum(k) <= (TargetRow(k).qty + 1) * TargetRow(k).price * AllocDen(k)
        /\ (bt.current_stocks_cash + Spent) * bt.stocks_percentaje[2] =
              bt.total_capital * bt.stocks_percentaje[1]
        /\ (bt._stocks # <<>> \/ bt.stock_capital >= 0) => bt.current_stocks_cash >= 0

\* a target was sized one share short of the floor
C5_OneShort ==
    /\ LastCallIs("_rebalance_portfolio") /\ Ok(bt)
    /\ \E k \in 1..Len(bt._stocks) :
          AllocNum(k) = (TargetRow(k).qty + 1) * TargetRow(k).price * AllocDen(k)

\* C5 witness: a rebalance sized two targets, bought shares and left a
\* residual in stock cash.
C5_Witness ==
    /\ LastCallIs("_rebalance_portfolio") /\ Ok(bt)
    /\ Len(bt._stocks) = 2
    /\ \E k \in 1..2 : TargetRow(k).qty >= 1
    /\ bt.current_stocks_cash > 0

Range(seq) == {seq[i] : i \in DOMAIN seq}

\* the four preconditions of run() as section 4.6 of the specification
\* states them, on the attached feeds and strategy
ValidConfig(s) ==
    /\ s._stocks_data # "None"
    /\ s._options_data # "None"
    /\ s._options_strategy # "None"
    /\ s.options_data_schema = s.strategy_schema
    /\ Range(s.stocks_data_dates) = Range(s.options_data_dates)

RunOver == LastCallIs("run") /\ pc \in {"failed", "finished"}

SimulatedDates == Range(bt.stocks_data_dates)
FirstDate == CHOOSE d \in SimulatedDates : \A e \in SimulatedDates : d <= e
LastDate == CHOOSE d \in SimulatedDates : \A e \in SimulatedDates : e <= d

\* C6: First-date capital distribution.  A run on a valid configuration with
\* initial capital C gets through the first date: the Rebalancer allocates
\* weight_stocks * C to stocks and, the strategy returning no candidate, option
\* cash is weight_options * C, and the record of the first date has a total
\* capital derived from C.
C6_FirstDateDistribution ==
    (RunOver /\ ValidConfig(bt) /\ bt.trade_log = <<>>) =>
        /\ day >= 1
        /\ bt.current_options_cash * bt.allocation["options"][2] =
              bt.allocation["options"][1] * bt.initial_capital
        /\ bt.stock_capital * bt.allocation["stocks"][2] =
              bt.allocation["stocks"][1] * bt.initial_capital
        /\ \E k \in 1..Len(bt.balance) :
              /\ bt.balance[k]["date"] = FirstDate
              /\ "total capital" \in DOMAIN bt.balance[k]
              /\ bt.balance[k]["total capital"] * bt.allocation["stocks"][2] =
                    (bt.allocation["stocks"][1] + bt.allocation["options"][1])
                        * bt.initial_capital

\* C7: Run preconditions.  run() fails with a configuration error, before
\* anything is initialised or written, whenever a feed or the strategy is not
\* attached, the schemas differ or the date sets differ; when all of these
\* hold it proceeds to the simulation loop.
C7_RunPreconditions ==
    (LastCallIs("run") /\ day = 0) =>
        IF ValidConfig(pre)
        THEN pc = "loop"
        ELSE /\ pc = "failed"
             /\ bt = [pre EXCEPT !.err = "AssertionError"]

\* C8: Rebalance trigger.  Over a run the Rebalancer is invoked on exactly the
\* dates that are the first simulated date or a rebalance boundary, once
\* each; with frequency 0 it runs exactly once, on the first date.
C8_RebalanceTrigger ==
    (RunOver /\ ValidConfig(bt)) =>
        LET due == {d \in SimulatedDates :
                        \/ d = FirstDate
                        \/ d \in RebalancingDays(FirstDate, LastDate,
                                                 call.rebalance_freq)}
        IN  /\ Range(call.rebalanced) = due
            /\ Len(call.rebalanced) = Cardinality(due)
            /\ call.rebalance_freq = 0 => call.rebalanced = <<FirstDate>>

\* C9: One balance record per date.  A run over N dates ends after the last
\* date with the balance series holding exactly one record per simulated
\* date, keyed by the date, in ascending order.
C9_OneRecordPerDate ==
    (RunOver /\ ValidConfig(bt)) =>
        /\ pc = "finished"
        /\ Len(bt.balance) = Cardinality(SimulatedDates)
        /\ \A k \in 1..Len(bt.balance) :
              bt.balance[k]["date"] = FirstDate + k - 1

\* positions held through the last call (not closed by its exit pass) with a
\* leg whose contract the day's chain does not quote
HeldMissing ==
    {i \in KeptPositions :
        \E l \in LegIdx : pre.options_inventory[i].legs[l] \notin call.options.quoted}

\* the mark of an inventory with every unquoted leg at cost zero
ZeroImputedValue(inventory, options) ==
    0 - SumFn([i \in 1..Len(inventory) |->
                 SumFn([l \in LegIdx |->
                          IF inventory[i].legs[l] \in options.quoted
                          THEN options.cost[inventory[i].legs[l]] * inventory[i].qty
                          ELSE 0],
                       LegIdx)],
              1..Len(inventory))

KeptRows == [k \in 1..Cardinality(KeptPositions) |->
                pre.options_inventory[CHOOSE i \in KeptPositions : RankKept(i) = k]]

\* C10, the Rebalancer: a held position with an unquoted contract is valued
\* at cost zero for that leg, the rebalance completes, and the position stays
\* in the inventory with its quantity.
C10_RebalancerImputes ==
    (LastCallIs("_rebalance_portfolio") /\ HeldMissing # {}
        /\ HasAttr(pre, "total_capital")) =>
        /\ Ok(bt)
        /\ SubSeq(bt.options_inventory, 1, Len(KeptRows)) = KeptRows
        /\ Len(KeptRows) = 1 =>
              LET computed ==
                      pre.current_options_cash
                          - SumSeq(call.exit_signals.total_costs)
                          + ZeroImputedValue(KeptRows, call.options)
                          + pre.current_stocks_cash
                          + SumSeq(OldStockCosts(pre, call.stocks))
              IN  computed # 0 => bt.total_capital = computed

\* C10, the Balance Tracker: the same on a date without a rebalance.
C10_TrackerImputes ==
    (LastCallIs("_update_balance") /\ HeldMissing # {}) =>
        /\ Ok(bt)
        /\ bt.options_inventory = KeptRows
        /\ Len(KeptRows) = 1 =>
              bt.options_capital =
                  bt.current_options_cash + ZeroImputedValue(KeptRows, call.options)

\* C10: Missing-contract imputation, in the Rebalancer and in the Balance
\* Tracker: the unquoted leg is valued at zero, the step completes without
\* error and the position stays in the inventory with its quantity unchanged.
C10_MissingContract == C10_RebalancerImputes /\ C10_TrackerImputes

\* C11: Single admission.  A call of the entry operation considers only the
\* first candidate: it adds at most one row to the option inventory and at
\* most one entry to the trade log, and a row it adds is the first candidate;
\* when the first candidate is rejected nothing is filled in its place; an
\* empty candidate list changes neither the inventory size nor option cash.
C11_SingleAdmission ==
    LastCallIs("_execute_entry") =>
        /\ Len(bt.options_inventory) <= Len(pre.options_inventory) + 1
        /\ Len(bt.trade_log) <= Len(pre.trade_log) + 1
        /\ SubSeq(bt.options_inventory, 1, Len(pre.options_inventory))
              = pre.options_inventory
        /\ Len(bt.options_inventory) > Len(pre.options_inventory) =>
              /\ bt.options_inventory[Len(bt.options_inventory)] = TopCandidate
              /\ bt.trade_log[Len(bt.trade_log)] = TopCandidate
        /\ (call.entry_signals # <<>> /\ pre.stop_if_broke
                /\ pre.current_options_cash < TopPrice) =>
              /\ bt.options_inventory = pre.options_inventory
              /\ bt.trade_log = pre.trade_log
              /\ bt.current_options_cash = pre.current_options_cash
        /\ call.entry_signals = <<>> =>
              /\ Len(bt.options_inventory) = Len(pre.options_inventory)
              /\ bt.current_options_cash = pre.current_options_cash

\* C11 witness: two candidates were offered, the first cost more than option
\* cash held, the second was affordable, and nothing was filled.
C11_Witness ==
    /\ LastCallIs("_execute_entry") /\ Len(call.entry_signals) = 2
    /\ pre.stop_if_broke
    /\ pre.current_options_cash < TopPrice
    /\ pre.current_options_cash >=
          call.entry_signals[2].cost * call.entry_signals[2].qty
    /\ bt.options_inventory = pre.options_inventory
    /\ bt.trade_log = pre.trade_log

\* the total capital a balance record carries
RecordTotal(r) ==
    IF "total capital" \in DOMAIN r THEN r["total capital"] ELSE r["total_capital"]

\* C12: Accumulated return.  After run() every record carries '% change',
\* the fractional change of total capital from the previous record, and
\* 'accumulated return', the cumulative product of (1 + % change): 1.0 at the
\* first record and total_capital[k] / total_capital[first] at record k.
C12_AccumulatedReturn ==
    (RunOver /\ ValidConfig(bt)) =>
        /\ pc = "finished"
        /\ \A k \in 1..Len(bt.balance) :
              LET r == bt.balance[k]
                  pct == r["% change"]
                  acc == r["accumulated return"]
              IN  /\ {"% change", "accumulated return"} \subseteq DOMAIN r
                  /\ ~acc.nan
                  /\ acc.num * RecordTotal(bt.balance[1]) = RecordTotal(r) * acc.den
                  /\ k > 1 =>
                        /\ ~pct.nan
                        /\ pct.num * RecordTotal(bt.balance[k - 1]) =
                              (RecordTotal(r) - RecordTotal(bt.balance[k - 1])) * pct.den

IsPrefix(s, t) == Len(s) <= Len(t) /\ SubSeq(t, 1, Len(s)) = s

\* C13: Trade log is append-only.  Across every entry, exit, rebalance and
\* balance step the trade log before the step is a prefix of the trade log
\* after it: no entry is lost and no entry already written is changed.
C13_TradeLogAppendOnly ==
    (call.op \in {"_execute_entry", "_execute_exit", "_rebalance_portfolio",
                  "_update_balance"}) =>
        IsPrefix(pre.trade_log, bt.trade_log)

\* C13 witness: a rebalance closed a held position and entered a new one; the
\* log kept what it held and grew by the exit row and the entry row.
C13_Witness ==
    /\ LastCallIs("_rebalance_portfolio")
    /\ Len(pre.trade_log) >= 1
    /\ Cardinality(call.exit_signals.exits_mask) = 1
    /\ Len(bt.trade_log) = Len(pre.trade_log) + 2
    /\ IsPrefix(pre.trade_log, bt.trade_log)
    /\ bt.trade_log[Len(bt.trade_log)] = TopCandidate

\* C14: summary() is a read-only projection.  A call of summary() after a
\* run returns its statistics and leaves the trade log, the balance series,
\* both inventories and both cash pools exactly as they were.
C14_SummaryReadOnly ==
    LastCallIs("summary") =>
        /\ Ok(bt)
        /\ bt.trade_log = pre.trade_log
        /\ bt.balance = pre.balance
        /\ bt.options_inventory = pre.options_inventory
        /\ bt.stocks_inventory = pre.stocks_inventory
        /\ bt.current_options_cash = pre.current_options_cash
        /\ bt.current_stocks_cash = pre.current_stocks_cash

\* C14, the frame alone: whether or not summary() returns, the trade log is
\* as it was.
C14_TradeLogKept == LastCallIs("summary") => bt.trade_log = pre.trade_log

RECURSIVE CommonDen(_, _)
\* a common denominator of the percentages from the k-th on
CommonDen(stocks, k) ==
    IF k > Len(stocks) THEN 1
    ELSE LCM(stocks[k].percentage[2], CommonDen(stocks, k + 1))

\* the percentages of a list of Stocks add up to one, as fractions
SumsToOne(stocks) ==
    LET den == CommonDen(stocks, 1) IN
    SumFn([k \in 1..Len(stocks) |->
              stocks[k].percentage[1] * (den \div stocks[k].percentage[2])],
          1..Len(stocks)) = den

AcceptableStocks(stocks) ==
    /\ \A k \in 1..Len(stocks) : IsStock(stocks[k])
    /\ SumsToOne(stocks)

\* C15: Stock-target validation.  Assigning a list whose percentages do not
\* sum to 1.0, or that holds an object that is not a Stock, fails and leaves
\* the stock list configured before unchanged; a list of Stocks summing to
\* 1.0 is accepted and stored.
C15_StockTargetValidation ==
    LastCallIs("stocks") =>
        IF AcceptableStocks(call.stocks)
        THEN Ok(bt) /\ bt._stocks = call.stocks
        ELSE bt = [pre EXCEPT !.err = "AssertionError"]

\* C15 on the float sum of line 37 in place of the sum of the percentages:
\* a refused list leaves the object as it was, an accepted one is stored.
C15_FloatSumValidation ==
    LastCallIs("stocks") =>
        IF (\A k \in 1..Len(call.stocks) : IsStock(call.stocks[k]))
           /\ PercentagesSumToOne(call.stocks)
        THEN Ok(bt) /\ bt._stocks = call.stocks
        ELSE bt = [pre EXCEPT !.err = "AssertionError"]

\* a list of Stocks whose percentages add up to one was refused
C15_DecimalRefused ==
    /\ LastCallIs("stocks")
    /\ AcceptableStocks(call.stocks)
    /\ bt.err = "AssertionError"

\* C15 witness: with a stock list configured, assigning a list that is short
\* of 1.0 failed and the configured list stayed.
C15_Witness ==
    /\ LastCallIs("stocks")
    /\ pre._stocks # <<>>
    /\ \A k \in 1..Len(call.stocks) : IsStock(call.stocks[k])
    /\ ~SumsToOne(call.stocks)
    /\ bt.err = "AssertionError"
    /\ bt._stocks = pre._stocks

\* the weight supplied for an asset, a missing key counting as 0
Supplied(a) == IF a \in DOMAIN call.allocation THEN call.allocation[a] ELSE 0

\* C16: Allocation normalisation.  After construction from an allocation
\* with positive total weight, each stored weight is the supplied weight (0
\* for a missing key) divided by the sum of the three supplied weights, and
\* the three stored weights sum to 1.
C16_AllocationNormalised ==
    LastCallIs("__init__") =>
        LET w == bt.allocation
            sum == Supplied("stocks") + Supplied("options") + Supplied("cash")
        IN  /\ \A a \in {"stocks", "options", "cash"} :
                  w[a][2] > 0 /\ w[a][1] * sum = Supplied(a) * w[a][2]
            /\ w["stocks"][1] * w["options"][2] * w["cash"][2]
                  + w["options"][1] * w["stocks"][2] * w["cash"][2]
                  + w["cash"][1] * w["stocks"][2] * w["options"][2]
               = w["stocks"][2] * w["options"][2] * w["cash"][2]

\* C16 witness: constructed from an allocation with unequal weights and a
\* cash share; the stored cash weight is that share of the total.
C16_Witness ==
    /\ LastCallIs("__init__")
    /\ Supplied("cash") > 0 /\ Supplied("options") # Supplied("stocks")
    /\ bt.allocation["cash"][1] * 4 = bt.allocation["cash"][2]

\* the exit signals of a date on which the strategy closes nothing
NoExit == [exits |-> <<>>, exits_mask |-> {}, total_costs |-> <<>>]

\* the object after the Balance Tracker has run on the state the last
\* rebalance left, on the same date (same prices, nothing closed)
TrackedAfterRebalance ==
    _update_balance(bt, call.date, call.stocks, call.options, NoExit)

\* a rebalance that traded no option: nothing closed, nothing filled
QuietRebalance ==
    /\ LastCallIs("_rebalance_portfolio") /\ Ok(bt)
    /\ call.exit_signals.exits_mask = {}
    /\ bt.trade_log = pre.trade_log

\* C17: Rebalance conserves capital.  Right after a rebalance with no option
\* trade, at unchanged prices, the Balance Tracker reports a total capital
\* equal to the total the Rebalancer computed before redistributing,
\* whatever the weights of stocks and options (the remainder being cash).
C17_RebalanceConserves ==
    QuietRebalance =>
        /\ Ok(TrackedAfterRebalance)
        /\ Len(TrackedAfterRebalance.balance) = Len(bt.balance) + 1
        /\ TrackedAfterRebalance.balance[Len(bt.balance) + 1]["total capital"]
              = bt.total_capital

\* C17, on the tracked attribute alone (self.total_capital, line 346): the
\* total the Balance Tracker computes is the total the Rebalancer computed.
C17_TrackedTotal ==
    (QuietRebalance /\ HasAttr(TrackedAfterRebalance, "total_capital")
        /\ TrackedAfterRebalance.err \in {"none", "NameError"}) =>
        TrackedAfterRebalance.total_capital = bt.total_capital

\* C17, the same when nothing is held and the two weights add up to 1
C17_TrackedTotalFullyInvested ==
    (QuietRebalance /\ TrackedAfterRebalance.err \in {"none", "NameError"}
        /\ bt.options_inventory = <<>>
        /\ bt.stocks_percentaje[1] * bt.options_percentaje[2]
              + bt.options_percentaje[1] * bt.stocks_percentaje[2]
           = bt.stocks_percentaje[2] * bt.options_percentaje[2]) =>
        TrackedAfterRebalance.total_capital = bt.total_capital

\* the value the code's valuation gives to a list of held rows on a chain
HeldValue(rows, options) ==
    OptionsValue(LegCandidates(rows, options), rows, "call")
        + OptionsValue(LegCandidates(rows, options), rows, "put")

\* option cash once the exit pass of the last call has been executed
CashAfterExit == pre.current_options_cash - SumSeq(call.exit_signals.total_costs)

\* C18: Exit-first ordering.  On a date the exit pass comes before any option
\* entry and before any mark: a rebalance writes the exit rows to the trade
\* log before the entry row and values what is left after the exits, with
\* the cash the exits left; the Balance Tracker marks the rows left after its
\* exit pass, with the cash the exits left.
C18_ExitFirst ==
    /\ (LastCallIs("_rebalance_portfolio") /\ Ok(bt)) =>
          LET n == Len(pre.trade_log)
              x == Len(call.exit_signals.exits)
              computed == CashAfterExit + HeldValue(KeptRows, call.options)
                              + pre.current_stocks_cash
                              + SumSeq(OldStockCosts(pre, call.stocks))
          IN  /\ SubSeq(bt.trade_log, 1, n + x) = pre.trade_log \o call.exit_signals.exits
              /\ Len(bt.trade_log) <= n + x + 1
              /\ SubSeq(bt.options_inventory, 1, Len(KeptRows)) = KeptRows
              /\ computed # 0 => bt.total_capital = computed
    /\ (LastCallIs("_update_balance") /\ bt.err \in {"none", "NameError", "IndexError"}) =>
          /\ bt.trade_log = pre.trade_log \o call.exit_signals.exits
          /\ bt.options_inventory = KeptRows
          /\ bt.options_capital = CashAfterExit + HeldValue(KeptRows, call.options)

\* C18 witness: a rebalance closed a position whose mark was not zero and
\* filled an entry; the log holds the exit row, then the entry row.
C18_Witness ==
    /\ LastCallIs("_rebalance_portfolio") /\ Ok(bt)
    /\ Len(call.exit_signals.exits) = 1
    /\ call.entry_signals # <<>>
    /\ HeldValue(pre.options_inventory, call.options) # HeldValue(KeptRows, call.options)
    /\ bt.trade_log = pre.trade_log \o call.exit_signals.exits \o <<TopCandidate>>

\* minus the marked cost * qty of the held contracts of one type, each
\* contract of each position counted once
TypeValue(inventory, options, kind) ==
    0 - SumFn([i \in 1..Len(inventory) |->
                 SumFn([l \in LegIdx |->
                          IF inventory[i].legs[l] \in options.quoted
                             /\ ContractType(inventory[i].legs[l]) = kind
                          THEN options.cost[inventory[i].legs[l]] * inventory[i].qty
                          ELSE 0],
                       LegIdx)],
              1..Len(inventory))

\* C19: Call/put split counts each holding once.  For the rows held after the
\* exit pass, call capital is the negated marked value of exactly the calls
\* held and put capital that of exactly the puts held, so the option capital
\* the Balance Tracker derives is option cash plus the negated marked value
\* of every leg of every position, each counted once.
C19_CallPutSplit ==
    (LastCallIs("_update_balance") /\ bt.err \in {"none", "NameError", "IndexError"}) =>
        LET leg_candidates == LegCandidates(KeptRows, call.options) IN
        /\ OptionsValue(leg_candidates, KeptRows, "call")
              = TypeValue(KeptRows, call.options, "call")
        /\ OptionsValue(leg_candidates, KeptRows, "put")
              = TypeValue(KeptRows, call.options, "put")
        /\ bt.options_capital =
              CashAfterExit + ZeroImputedValue(KeptRows, call.options)

\* old option capital plus old stock capital, as the last rebalance found them
ComputedTotal ==
    CashAfterExit + HeldValue(KeptRows, call.options)
        + pre.current_stocks_cash + SumSeq(OldStockCosts(pre, call.stocks))

\* the total capital tracked before the last call: the tracked attribute, or
\* the initial capital when nothing was tracked yet (the first date)
TrackedBefore ==
    IF HasAttr(pre, "total_capital") THEN pre.total_capital ELSE pre.initial_capital

\* the total a rebalance has to redistribute under the fallback rule
FallbackTotal == IF ComputedTotal = 0 THEN TrackedBefore ELSE ComputedTotal

\* C20: Zero-capital fallback.  A rebalance that finds old option capital
\* plus old stock capital exactly zero keeps the total capital tracked before
\* (the initial capital on the first date) and redistributes it; otherwise
\* the total capital becomes the computed sum.
C20_ZeroCapitalFallback ==
    LastCallIs("_rebalance_portfolio") =>
        /\ Ok(bt)
        /\ bt.total_capital = FallbackTotal
        /\ bt.stock_capital = Times(FallbackTotal, pre.stocks_percentaje)
        /\ bt.options_capital = Times(FallbackTotal, pre.options_percentaje)

\* C20 when a total capital was tracked before the call
C20_FallbackWhenTracked ==
    (LastCallIs("_rebalance_portfolio") /\ HasAttr(pre, "total_capital")) =>
        /\ Ok(bt)
        /\ bt.total_capital = FallbackTotal
        /\ bt.stock_capital = Times(FallbackTotal, pre.stocks_percentaje)
        /\ bt.options_capital = Times(FallbackTotal, pre.options_percentaje)

\* the object as the exit pass of the last balance update left it
PostExit == _execute_exit(pre, call.exit_signals)

\* what the marks value: the inventories, the two cash pools and the trade log
Valued == {"stocks_inventory", "options_inventory", "_stocks_inventory",
           "_options_inventory", "current_stocks_cash", "current_options_cash",
           "trade_log"}

\* the capital fields the marks derive
DerivedCapital == {"options_capital", "stock_capital", "total_capital"}

\* C21: Mark-to-market changes nothing it values.  After the exit pass of
\* the Balance Tracker, computing the marks and appending the record leaves
\* the stock inventory, the option inventory, the stock-side cash, the
\* option-side cash and the trade log as the exit pass left them; with no
\* exit signal, nothing but the balance series and the derived capital
\* fields (and the outcome of the call) differs from before the call.
C21_MarkToMarketFrame ==
    LastCallIs("_update_balance") =>
        /\ \A f \in Valued : bt[f] = PostExit[f]
        /\ pre.has \subseteq bt.has
        /\ bt.has \ PostExit.has \subseteq DerivedCapital
        /\ call.exit_signals.exits_mask = {} =>
              \A f \in DOMAIN bt \ (DerivedCapital \cup {"balance", "has", "err"}) :
                  bt[f] = pre[f]

\* a balance update that closes one of two held positions and marks the
\* other at a value other than zero
C21_Witness ==
    /\ LastCallIs("_update_balance")
    /\ Len(pre.options_inventory) = 2
    /\ Cardinality(call.exit_signals.exits_mask) = 1
    /\ Len(bt.options_inventory) = 1
    /\ HasAttr(bt, "options_capital")
    /\ bt.options_capital # bt.current_options_cash
    /\ HasAttr(bt, "total_capital")
    /\ bt.err = "NameError"

\* the same on a date without exit signals, stocks held
C21_QuietDate ==
    /\ LastCallIs("_update_balance")
    /\ call.exit_signals.exits_mask = {}
    /\ pre.options_inventory # <<>>
    /\ pre.stocks_inventory # <<>>
    /\ bt.options_capital # bt.current_options_cash
    /\ bt.stock_capital # bt.current_stocks_cash
    /\ bt.err = "NameError"

====
